---- MODULE Spec2Model ----
(***************************************************************************)
(* Model of colors.py: a generator process, a watermarker process, the     *)
(* main loop (frame relay) and a viewer process, connected by two          *)
(* multiprocessing queues, one shared array with its lock and three        *)
(* events; and of the two harnesses of test_colors.py that run             *)
(* generate_rgb_images and cleanup on their own.                           *)
(*                                                                         *)
(* A multiprocessing.Queue is a buffer in the putting process, which a     *)
(* feeder thread of that process flushes into a pipe; get() and empty()    *)
(* look at the pipe only (colors.py:92-93 and 199-202 quote the library's  *)
(* documentation on both points).                                          *)
(***************************************************************************)
EXTENDS Integers, Sequences, FiniteSets, TLC

\* ---------------------------------------------------------------- bounds
\* Largest number of images the user asks for.
MaxImages == 2
\* Largest width and height the user asks for.
MaxDim == 2
\* The widths and heights tried: the smallest the prompt accepts, the largest.
Dims == {1, MaxDim}
\* Rank of the last entry of the colour table random.choice draws in the
\* full program.
MaxColors == 2
\* The entries drawn there: the first and that last one.
ColorRanks == {1, MaxColors}
\* Number of items a queue's pipe holds before the feeder thread blocks.
PipeCap == 2
\* Largest number of dummy items test_cleanup puts on a queue.
MaxItems == 2

\* ------------------------------------------------------- colour catalog
\* Keys of the dictionary are names and RGB tuples; both are tagged so that
\* a name is never compared with a tuple.
Name(s) == <<"name", s>>
Rgb(t) == <<"rgb", t>>
IsTuple(k) == k[1] = "rgb"

\* A literal with grey where white is.
ColorTable_GreyForWhite ==
  << <<"black",   <<0, 0, 0>>>>,
     <<"grey",    <<128, 128, 128>>>>,
     <<"red",     <<255, 0, 0>>>>,
     <<"yellow",  <<255, 255, 0>>>>,
     <<"lime",    <<0, 255, 0>>>>,
     <<"aqua",    <<0, 255, 255>>>>,
     <<"blue",    <<0, 0, 255>>>>,
     <<"fuchsia", <<255, 0, 255>>>> >>

\* The literal handed to TwoWayDict(...), in source order.
ColorTable ==
  << <<"black",   <<0, 0, 0>>>>,
     <<"white",   <<255, 255, 255>>>>,
     <<"red",     <<255, 0, 0>>>>,
     <<"yellow",  <<255, 255, 0>>>>,
     <<"lime",    <<0, 255, 0>>>>,
     <<"aqua",    <<0, 255, 255>>>>,
     <<"blue",    <<0, 0, 255>>>>,
     <<"fuchsia", <<255, 0, 255>>>> >>

\* dict.pop(key, None)
PopKey(d, key) == [k \in (DOMAIN d) \ {key} |-> d[k]]

\* A __delitem__ that pops the key alone.
DelItem_OneWay(d, key) == PopKey(d, key)

\* TwoWayDict.__delitem__: pops key, then pops its value if present.
DelItem(d, key) == PopKey(PopKey(d, key), d[key])

\* TwoWayDict.__setitem__
SetItem(d, key, value) ==
  LET d1 == IF key \in DOMAIN d THEN DelItem(d, d[key]) ELSE d
      d2 == IF value \in DOMAIN d1 THEN DelItem(d1, value) ELSE d1
  IN  [k \in (DOMAIN d2) \cup {key, value} |->
         IF k = value THEN key ELSE IF k = key THEN value ELSE d2[k]]

\* UserDict.__init__ stores the literal's pairs one by one with __setitem__.
RECURSIVE BuildDict(_, _)
BuildDict(table, n) ==
  IF n = 0 THEN <<>>
  ELSE SetItem(BuildDict(table, n - 1), Name(table[n][1]), Rgb(table[n][2]))

RGB_COLORS == BuildDict(ColorTable, Len(ColorTable))

\* [*RGB_COLORS]: every key of the dictionary, names and tuples alike.
AllKeys == DOMAIN RGB_COLORS

\* The keys, name and tuple, of the entries of rank ColorRanks.
BoundedKeys ==
  {k \in AllKeys : \E n \in ColorRanks :
      k = Name(ColorTable[n][1]) \/ k = Rgb(ColorTable[n][2])}

\* A subtraction from (256,256,256).
get_complement_color_From256(rgb) == [c \in 1..3 |-> 256 - rgb[c]]

\* get_complement_color: (255,255,255) - rgb, component by component.
get_complement_color(rgb) == [c \in 1..3 |-> 255 - rgb[c]]

\* ---------------------------------------------------------------- items
\* The sentinel None that ends a queue.
None == [kind |-> "None"]
IsNone(x) == x.kind = "None"

\* np.full((height, width, 3), rgb): a frame of one colour.  px00 is the
\* pixel image[0][0]; id is the frame's rank in the generated sequence.
FullImage(n, h, w, rgb) ==
  [kind |-> "frame", id |-> n, shape |-> <<h, w, 3>>, fill |-> rgb,
   px00 |-> rgb, circle |-> <<>>, text |-> ""]

\* A dummy item of test_cleanup.
Dummy(v) == [kind |-> "item", v |-> v]


\* The zero-filled contents mp.Array starts with.
Zeros == [kind |-> "zeros", id |-> 0, px00 |-> <<0, 0, 0>>]

Min(a, b) == IF a < b THEN a ELSE b

\* cv2.circle(rgb_image, center, radius, ..., FILLED) paints pixel (0,0) when
\* the pixel lies within radius of center.
CircleCovers00(center, radius) ==
  center[1] * center[1] + center[2] * center[2] <= radius * radius

\* The pixel image[0][0] once the circle is drawn.
Px00AfterCircle(img) ==
  LET img_height == img.shape[1]
      img_width  == img.shape[2]
      center     == <<img_width \div 2, img_height \div 2>>
      radius     == Min(img_height, img_width) \div 4
      comp_color == get_complement_color(img.px00)
  IN  IF CircleCovers00(center, radius) THEN comp_color ELSE img.px00

\* The body of watermark_images' loop for one frame: the circle in the
\* complement of image[0][0], then the name looked up from image[0][0].
\* (The pixels putText paints are the rendering library's business.)
Watermark(img) ==
  LET img_height == img.shape[1]
      img_width  == img.shape[2]
      center     == <<img_width \div 2, img_height \div 2>>
      radius     == Min(img_height, img_width) \div 4
      comp_color == get_complement_color(img.px00)
      px         == Px00AfterCircle(img)
  IN  [img EXCEPT !.px00 = px,
                  !.circle = <<center, radius, comp_color>>,
                  !.text = RGB_COLORS[Rgb(px)][2]]

\* ---------------------------------------------------------------- queues
\* A put that queues its item first instead of last.
QueuePut_Front(buf, x) == <<x>> \o buf

\* Queue.put: appends to the putting process's buffer (the queues are
\* unbounded, so a put never blocks and never times out).
QueuePut(buf, x) == Append(buf, x)

\* ----------------------------------------------------------------- state
VARIABLES
  num_images, width, height,     \* the three mp.Value inputs
  event_quit, event_start, event_next_img,
  lock,                          \* holder of array_a's lock
  array_a,                       \* the shared array, as its two halves
  bufA, pipeA, bufB, pipeB,      \* queue_a and queue_b
  pc_gen, i,                     \* generate_rgb_images
  pc_wm, wm_error,               \* watermark_images
  pc_main, image, count, process_list,   \* main loop and cleanup
  pc_view, view_error,           \* display_image
  \* history
  putsA, putsB, wm_gets, written, shown, quit_key, quit_by,
  next_by_viewer, test_seen,
  drained,                       \* what cleanup took from each queue
  \* functions called on their own
  catalog, last_insert,          \* a TwoWayDict and the last pair stored
  rgb_arr, complements           \* get_complement_color's input, answers

flags  == <<event_quit, event_start, event_next_img>>
inputs == <<num_images, width, height>>
calls  == <<catalog, last_insert, rgb_arr, complements>>
queues == <<bufA, pipeA, bufB, pipeB>>
genv   == <<pc_gen, i, putsA>>
wmv    == <<pc_wm, wm_error, putsB, wm_gets>>
mainv  == <<pc_main, image, count, process_list, written, drained>>
viewv  == <<pc_view, view_error, shown, quit_key>>
vars   == <<calls, inputs, flags, lock, array_a, queues, genv, wmv, mainv, viewv,
            quit_by, next_by_viewer, test_seen>>

\* cv2.waitKey's answers: ord('q'), <Enter>, and some other key.
KeyQ == 113
KeyEnter == 13
KeyOther == 32
KeyCodes == {KeyQ, KeyEnter, KeyOther}

\* State shared by every initial condition.
Blank ==
  /\ event_quit = FALSE /\ event_start = FALSE
  /\ lock = "free" /\ array_a = <<Zeros, Zeros>>
  /\ pipeA = <<>> /\ pipeB = <<>>
  /\ wm_error = "none" /\ image = None /\ count = 0
  /\ view_error = FALSE
  /\ wm_gets = <<>> /\ written = <<>>
  /\ shown = {} /\ quit_key = FALSE /\ quit_by = {}
  /\ next_by_viewer = FALSE /\ test_seen = <<>> /\ drained = [a |-> <<>>, b |-> <<>>]

\* No pair stored yet.
NoInsert == [key |-> <<>>, value |-> <<>>, stale |-> {}]

\* The module is loaded: RGB_COLORS is built, no function is called on its
\* own.
NoCalls ==
  /\ catalog = RGB_COLORS /\ last_insert = NoInsert
  /\ rgb_arr = <<0, 0, 0>> /\ complements = <<>>

\* The program once __main__ has read its inputs, built the queues, the
\* array and the events (event_next_img set) and started the processes.
Init ==
  /\ Blank /\ NoCalls
  /\ num_images \in 1..MaxImages
  /\ width \in Dims /\ height \in Dims
  /\ event_next_img = TRUE
  /\ bufA = <<>> /\ bufB = <<>> /\ putsA = <<>> /\ putsB = <<>>
  /\ pc_gen = "loop" /\ i = num_images
  /\ pc_wm = "check"
  /\ pc_main = "check" /\ process_list = {"gen", "wm", "view"}
  /\ pc_view = "wait_start"

\* ------------------------------------------------------- feeder threads
\* The feeder thread of queue_a's putter moves one buffered item into the pipe.
FeedA ==
  /\ bufA # <<>> /\ Len(pipeA) < PipeCap
  /\ pipeA' = Append(pipeA, Head(bufA))
  /\ bufA' = Tail(bufA)
  /\ UNCHANGED <<calls, inputs, flags, lock, array_a, bufB, pipeB, genv, wmv, mainv,
                 viewv, quit_by, next_by_viewer, test_seen>>

FeedB ==
  /\ bufB # <<>> /\ Len(pipeB) < PipeCap
  /\ pipeB' = Append(pipeB, Head(bufB))
  /\ bufB' = Tail(bufB)
  /\ UNCHANGED <<calls, inputs, flags, lock, array_a, bufA, pipeA, genv, wmv, mainv,
                 viewv, quit_by, next_by_viewer, test_seen>>

\* ------------------------------------------------- generate_rgb_images
\* A loop that goes round once more.
GenLoopCond_OneMore(n, quit) == n >= 0 /\ ~quit

\* A loop that is never entered.
GenLoopCond_Never(n, quit) == FALSE

\* while i > 0 and not event_quit.is_set()
GenLoopCond(n, quit) == n > 0 /\ ~quit

\* The image of one iteration, for the key random.choice returned.
GenImage(rand_color) ==
  LET name == IF IsTuple(rand_color) THEN RGB_COLORS[rand_color] ELSE rand_color
  IN  FullImage(num_images - i + 1, height, width, RGB_COLORS[name][2])

\* A generator that returns without the sentinel.
GenFinalPut_Dropped(buf) == buf

\* queue_a.put(None) after the loop
GenFinalPut(buf) == QueuePut(buf, None)

\* One iteration of the loop, the key drawn from keys.
GenIterate(keys) ==
  /\ pc_gen = "loop" /\ GenLoopCond(i, event_quit)
  /\ \E rand_color \in keys :
       /\ bufA' = QueuePut(bufA, GenImage(rand_color))
       /\ putsA' = Append(putsA, GenImage(rand_color))
  /\ i' = i - 1
  /\ UNCHANGED <<calls, inputs, flags, lock, array_a, pipeA, bufB, pipeB, pc_gen, wmv,
                 mainv, viewv, quit_by, next_by_viewer, test_seen>>

\* The loop ends: the sentinel is put and the function returns.
GenSentinel ==
  /\ pc_gen = "loop" /\ ~GenLoopCond(i, event_quit)
  /\ bufA' = GenFinalPut(bufA)
  /\ putsA' = IF bufA' = bufA THEN putsA ELSE Append(putsA, None)
  /\ pc_gen' = "ended"
  /\ UNCHANGED <<calls, inputs, flags, lock, array_a, pipeA, bufB, pipeB, i, wmv,
                 mainv, viewv, quit_by, next_by_viewer, test_seen>>

\* ---------------------------------------------------- watermark_images
\* while not event_quit.is_set(): the loop goes on to queue_a.get(timeout=1),
\* or ends and the sentinel is put on queue_b.
WmCheck ==
  /\ pc_wm = "check"
  /\ IF event_quit
       THEN /\ bufB' = QueuePut(bufB, None)
            /\ putsB' = Append(putsB, None)
            /\ pc_wm' = "ended"
       ELSE /\ pc_wm' = "get"
            /\ UNCHANGED <<bufB, putsB>>
  /\ UNCHANGED <<calls, inputs, flags, lock, array_a, bufA, pipeA, pipeB, genv,
                 wm_error, wm_gets, mainv, viewv, quit_by, next_by_viewer,
                 test_seen>>

\* What the loop does with the item queue_a.get returned: None breaks out
\* of the loop to the final put; a frame whose pixel has no name raises
\* KeyError; any other frame is watermarked and put on queue_b.
WmHandle(x) ==
  IF IsNone(x)
    THEN /\ bufB' = QueuePut(bufB, None)
         /\ putsB' = Append(putsB, None)
         /\ pc_wm' = "ended"
         /\ UNCHANGED wm_error
    ELSE IF Rgb(Px00AfterCircle(x)) \notin DOMAIN RGB_COLORS
    THEN /\ wm_error' = "KeyError"
         /\ pc_wm' = "ended"
         /\ UNCHANGED <<bufB, putsB>>
    ELSE /\ bufB' = QueuePut(bufB, Watermark(x))
         /\ putsB' = Append(putsB, Watermark(x))
         /\ pc_wm' = "check"
         /\ UNCHANGED wm_error

\* queue_a.get(timeout=1) returns an item.
WmGet ==
  /\ pc_wm = "get" /\ pipeA # <<>>
  /\ pipeA' = Tail(pipeA)
  /\ wm_gets' = Append(wm_gets, Head(pipeA))
  /\ WmHandle(Head(pipeA))
  /\ UNCHANGED <<calls, inputs, flags, lock, array_a, bufA, pipeB, genv, mainv,
                 viewv, quit_by, next_by_viewer, test_seen>>

\* Where watermark_images goes when queue_a.get(timeout=1) raises Empty:
\* nothing catches the exception, so the function is left at once.
WmAfterTimeout == "ended"

\* queue_a.get(timeout=1) finds the pipe empty for a second and raises
\* queue.Empty.
WmTimeout ==
  /\ pc_wm = "get" /\ pipeA = <<>>
  /\ pc_wm' = WmAfterTimeout
  /\ wm_error' = IF pc_wm' = "ended" THEN "Empty" ELSE wm_error
  /\ UNCHANGED <<calls, inputs, flags, lock, array_a, queues, genv, putsB, wm_gets,
                 mainv, viewv, quit_by, next_by_viewer, test_seen>>

\* --------------------------------------------------- __main__: the loop
\* A wait that returns whatever the event says.
NextImgWait_Ignored(flag) == TRUE

\* event_next_img.wait() returns when the event is set.
NextImgWait(flag) == flag

\* A lock that anybody gets at any time.
LockFree_Always(l) == TRUE

\* array_a.get_lock() is acquired when nobody holds it.
LockFree(l) == l = "free"

\* while not event_quit.is_set()
MainCheck ==
  /\ pc_main = "check"
  /\ pc_main' = IF event_quit THEN "cl_get_b" ELSE "wait"
  /\ UNCHANGED <<calls, inputs, flags, lock, array_a, queues, genv, wmv, image, count,
                 process_list, written, drained, viewv, quit_by, next_by_viewer,
                 test_seen>>

\* event_next_img.wait()
MainWait ==
  /\ pc_main = "wait" /\ NextImgWait(event_next_img)
  /\ pc_main' = "get"
  /\ UNCHANGED <<calls, inputs, flags, lock, array_a, queues, genv, wmv, image, count,
                 process_list, written, drained, viewv, quit_by, next_by_viewer,
                 test_seen>>

\* image = queue_b.get(), which waits for an item without a timeout.
MainGet ==
  /\ pc_main = "get" /\ pipeB # <<>>
  /\ image' = Head(pipeB)
  /\ pipeB' = Tail(pipeB)
  /\ pc_main' = IF IsNone(Head(pipeB)) THEN "set_quit" ELSE "acquire"
  /\ UNCHANGED <<calls, inputs, flags, lock, array_a, bufA, pipeA, bufB, genv, wmv,
                 count, process_list, written, drained, viewv, quit_by, next_by_viewer,
                 test_seen>>

\* image is None: event_quit.set(); break (then cv2.destroyAllWindows()).
MainSetQuit ==
  /\ pc_main = "set_quit"
  /\ event_quit' = TRUE
  /\ quit_by' = quit_by \cup {"main"}
  /\ pc_main' = "cl_get_b"
  /\ UNCHANGED <<calls, inputs, event_start, event_next_img, lock, array_a, queues,
                 genv, wmv, image, count, process_list, written, drained, viewv,
                 next_by_viewer, test_seen>>

\* with array_a.get_lock():
MainAcquire ==
  /\ pc_main = "acquire" /\ LockFree(lock)
  /\ lock' = "main"
  /\ pc_main' = "write1"
  /\ UNCHANGED <<calls, inputs, flags, array_a, queues, genv, wmv, image, count,
                 process_list, written, drained, viewv, quit_by, next_by_viewer,
                 test_seen>>

\* arr[:] = image copies the image into the array, first half ...
MainWrite1 ==
  /\ pc_main = "write1"
  /\ array_a' = [array_a EXCEPT ![1] = image]
  /\ pc_main' = "write2"
  /\ UNCHANGED <<calls, inputs, flags, lock, queues, genv, wmv, image, count,
                 process_list, written, drained, viewv, quit_by, next_by_viewer,
                 test_seen>>

\* ... then second half.
MainWrite2 ==
  /\ pc_main = "write2"
  /\ array_a' = [array_a EXCEPT ![2] = image]
  /\ written' = Append(written, image)
  /\ pc_main' = "set_start"
  /\ UNCHANGED <<calls, inputs, flags, lock, queues, genv, wmv, image, count,
                 process_list, drained, viewv, quit_by, next_by_viewer,
                 test_seen>>

\* event_start.set()
MainSetStart ==
  /\ pc_main = "set_start"
  /\ event_start' = TRUE
  /\ pc_main' = "clear_next"
  /\ UNCHANGED <<calls, inputs, event_quit, event_next_img, lock, array_a, queues,
                 genv, wmv, image, count, process_list, written, drained, viewv,
                 quit_by, next_by_viewer, test_seen>>

\* A clear() called on event_start.
MainClearNext_ClearsStart ==
  /\ pc_main = "clear_next"
  /\ event_start' = FALSE
  /\ next_by_viewer' = FALSE
  /\ pc_main' = "release"
  /\ UNCHANGED <<calls, inputs, event_quit, event_next_img, lock, array_a,
                 queues, genv, wmv, image, count, process_list, written,
                 drained, viewv, quit_by, test_seen>>

\* event_next_img.clear()
MainClearNext ==
  /\ pc_main = "clear_next"
  /\ event_next_img' = FALSE
  /\ next_by_viewer' = FALSE
  /\ pc_main' = "release"
  /\ UNCHANGED <<calls, inputs, event_quit, event_start, lock, array_a, queues, genv,
                 wmv, image, count, process_list, written, drained, viewv, quit_by,
                 test_seen>>

\* The with block ends and the lock is released.
MainRelease ==
  /\ pc_main = "release"
  /\ lock' = "free"
  /\ pc_main' = "check"
  /\ UNCHANGED <<calls, inputs, flags, array_a, queues, genv, wmv, image, count,
                 process_list, written, drained, viewv, quit_by, next_by_viewer,
                 test_seen>>

\* -------------------------------------------------------------- cleanup
\* An exit test that finds every process gone.
Exited_Always(p) == TRUE

\* p.exitcode is not None: the process's function has ended, by return or
\* by an exception, and the feeder threads of the queues it put on have
\* flushed their buffers (the process does not terminate before).
Exited(p) ==
  CASE p = "gen"  -> pc_gen = "ended" /\ bufA = <<>>
    [] p = "wm"   -> pc_wm = "ended" /\ bufB = <<>>
    [] p = "view" -> pc_view = "ended"

\* queue_b.get(block=False): an item of the pipe, or Empty, which is passed.
ClGetB ==
  /\ pc_main = "cl_get_b"
  /\ IF pipeB # <<>>
       THEN /\ pipeB' = Tail(pipeB)
            /\ count' = count + 1
            /\ drained' = [drained EXCEPT !.b = Append(@, Head(pipeB))]
       ELSE UNCHANGED <<pipeB, count, drained>>
  /\ pc_main' = "cl_get_a"
  /\ UNCHANGED <<calls, inputs, flags, lock, array_a, bufA, pipeA, bufB, genv, wmv,
                 image, process_list, written, viewv, quit_by, next_by_viewer,
                 test_seen>>

\* queue_a.get(block=False)
ClGetA ==
  /\ pc_main = "cl_get_a"
  /\ IF pipeA # <<>>
       THEN /\ pipeA' = Tail(pipeA)
            /\ count' = count + 1
            /\ drained' = [drained EXCEPT !.a = Append(@, Head(pipeA))]
       ELSE UNCHANGED <<pipeA, count, drained>>
  /\ pc_main' = "cl_exited"
  /\ UNCHANGED <<calls, inputs, flags, lock, array_a, bufA, bufB, pipeB, genv, wmv,
                 image, process_list, written, viewv, quit_by, next_by_viewer,
                 test_seen>>

\* Where cleanup goes when a test of its exit condition fails: round again.
ClRetry == "cl_get_b"

\* all_exited: no process of process_list has exitcode None.
ClExited ==
  /\ pc_main = "cl_exited"
  /\ pc_main' = IF \A p \in process_list : Exited(p)
                  THEN "cl_empty_b" ELSE ClRetry
  /\ UNCHANGED <<calls, inputs, flags, lock, array_a, queues, genv, wmv, image, count,
                 process_list, written, drained, viewv, quit_by,
                 next_by_viewer, test_seen>>

\* ... and queue_b.empty(), which looks at the pipe
ClEmptyB ==
  /\ pc_main = "cl_empty_b"
  /\ pc_main' = IF pipeB = <<>> THEN "cl_empty_a" ELSE ClRetry
  /\ UNCHANGED <<calls, inputs, flags, lock, array_a, queues, genv, wmv, image, count,
                 process_list, written, drained, viewv, quit_by,
                 next_by_viewer, test_seen>>

\* ... and queue_a.empty(): break, and cleanup returns.
ClEmptyA ==
  /\ pc_main = "cl_empty_a"
  /\ pc_main' = IF pipeA = <<>> THEN "returned" ELSE ClRetry
  /\ UNCHANGED <<calls, inputs, flags, lock, array_a, queues, genv, wmv, image, count,
                 process_list, written, drained, viewv, quit_by,
                 next_by_viewer, test_seen>>

\* p_one.join(); p_two.join(); p_three.join()
MainJoin ==
  /\ pc_main = "returned"
  /\ \A p \in process_list : Exited(p)
  /\ pc_main' = "done"
  /\ UNCHANGED <<calls, inputs, flags, lock, array_a, queues, genv, wmv, image, count,
                 process_list, written, drained, viewv, quit_by,
                 next_by_viewer, test_seen>>

\* -------------------------------------------------------- display_image
\* A viewer that starts without waiting for event_start.
ViewWaitStart_NoWait ==
  /\ pc_view = "wait_start"
  /\ pc_view' = "check"
  /\ UNCHANGED <<calls, inputs, flags, lock, array_a, queues, genv, wmv, mainv,
                 view_error, shown, quit_key, quit_by, next_by_viewer,
                 test_seen>>

\* event_start.wait()
ViewWaitStart ==
  /\ pc_view = "wait_start" /\ event_start
  /\ pc_view' = "check"
  /\ UNCHANGED <<calls, inputs, flags, lock, array_a, queues, genv, wmv, mainv,
                 view_error, shown, quit_key, quit_by, next_by_viewer,
                 test_seen>>

\* while not event_quit.is_set()
ViewCheck ==
  /\ pc_view = "check"
  /\ pc_view' = IF event_quit THEN "ended" ELSE "acquire"
  /\ UNCHANGED <<calls, inputs, flags, lock, array_a, queues, genv, wmv, mainv,
                 view_error, shown, quit_key, quit_by, next_by_viewer,
                 test_seen>>

\* with array_a.get_lock():
ViewAcquire ==
  /\ pc_view = "acquire" /\ LockFree(lock)
  /\ lock' = "view"
  /\ pc_view' = "read"
  /\ UNCHANGED <<calls, inputs, flags, array_a, queues, genv, wmv, mainv, view_error,
                 shown, quit_key, quit_by, next_by_viewer, test_seen>>

\* The body of the with block: color_text = RGB_COLORS[tuple(image[0][0])],
\* where a KeyError ends the function; then cv2.imshow of a copy of the
\* array and the two prints.  The lock is released on the way out.
ViewRender ==
  /\ pc_view = "read"
  /\ IF Rgb(array_a[1].px00) \in DOMAIN RGB_COLORS
       THEN /\ shown' = shown \cup {<<array_a[1].id, array_a[2].id>>}
            /\ pc_view' = "waitkey"
            /\ UNCHANGED view_error
       ELSE /\ pc_view' = "ended"
            /\ view_error' = TRUE
            /\ UNCHANGED shown
  /\ lock' = "free"
  /\ UNCHANGED <<calls, inputs, flags, array_a, queues, genv, wmv, mainv, quit_key,
                 quit_by, next_by_viewer, test_seen>>

\* A test that takes every key but 'q' for <Enter>.
IsNextKey_AnyOther(key) == key # KeyQ

\* key == ord('q')
IsQuitKey(key) == key = KeyQ
\* key == 13
IsNextKey(key) == key = KeyEnter

\* Where display_image stands when waitKey has returned key.
KeyPc(key) ==
  IF key = KeyQ THEN "key_q" ELSE IF key = KeyEnter THEN "key_enter"
  ELSE "key_other"

\* The key waitKey returned.
KeyRead ==
  CASE pc_view = "key_q" -> KeyQ
    [] pc_view = "key_enter" -> KeyEnter
    [] pc_view = "key_other" -> KeyOther

\* key = cv2.waitKey(0): somebody presses a key.
ViewKey ==
  /\ pc_view = "waitkey"
  /\ \E key \in KeyCodes : pc_view' = KeyPc(key)
  /\ UNCHANGED <<calls, inputs, flags, lock, array_a, queues, genv, wmv, mainv,
                 view_error, shown, quit_key, quit_by, next_by_viewer,
                 test_seen>>

\* The branch taken: 'q' sets event_quit, <Enter> sets event_next_img
\* (print and sleep follow), any other key goes round the loop.
ViewBranch ==
  /\ pc_view \in {"key_q", "key_enter", "key_other"}
  /\ LET key == KeyRead IN
       /\ event_quit' = IF IsQuitKey(key) THEN TRUE ELSE event_quit
       /\ quit_by' = IF IsQuitKey(key) THEN quit_by \cup {"view"} ELSE quit_by
       /\ quit_key' = IF IsQuitKey(key) THEN TRUE ELSE quit_key
       /\ event_next_img' =
            IF ~IsQuitKey(key) /\ IsNextKey(key) THEN TRUE ELSE event_next_img
       /\ next_by_viewer' =
            IF ~IsQuitKey(key) /\ IsNextKey(key) THEN TRUE ELSE next_by_viewer
       /\ pc_view' = IF IsQuitKey(key) THEN "q_next" ELSE "check"
  /\ UNCHANGED <<calls, inputs, event_start, lock, array_a, queues, genv, wmv,
                 mainv, view_error, shown, test_seen>>

\* After 'q': event_next_img.set(); break.
ViewQuitNext ==
  /\ pc_view = "q_next"
  /\ event_next_img' = TRUE
  /\ next_by_viewer' = TRUE
  /\ pc_view' = "ended"
  /\ UNCHANGED <<calls, inputs, event_quit, event_start, lock, array_a, queues, genv,
                 wmv, mainv, view_error, shown, quit_key, quit_by, test_seen>>

\* ------------------------------------------------------- the program
Next ==
  \/ GenIterate(BoundedKeys) \/ GenSentinel \/ FeedA \/ FeedB
  \/ WmCheck \/ WmGet \/ WmTimeout
  \/ MainCheck \/ MainWait \/ MainGet \/ MainSetQuit \/ MainAcquire
  \/ MainWrite1 \/ MainWrite2 \/ MainSetStart \/ MainClearNext \/ MainRelease
  \/ ClGetB \/ ClGetA \/ ClExited \/ ClEmptyB \/ ClEmptyA \/ MainJoin
  \/ ViewWaitStart \/ ViewCheck \/ ViewAcquire \/ ViewRender
  \/ ViewKey \/ ViewBranch \/ ViewQuitNext

Spec == Init /\ [][Next]_vars

\* Every step but a key press and a timeout is taken if it stays possible:
\* each process and each feeder thread is scheduled; nobody has to press a
\* key, and an item may always arrive within the second get waits.
GenStep  == GenIterate(BoundedKeys) \/ GenSentinel
WmStep   == WmCheck \/ WmGet
MainStep ==
  \/ MainCheck \/ MainWait \/ MainGet \/ MainSetQuit \/ MainAcquire
  \/ MainWrite1 \/ MainWrite2 \/ MainSetStart \/ MainClearNext \/ MainRelease
  \/ ClGetB \/ ClGetA \/ ClExited \/ ClEmptyB \/ ClEmptyA \/ MainJoin
ViewStep ==
  \/ ViewWaitStart \/ ViewCheck \/ ViewAcquire \/ ViewRender
  \/ ViewBranch \/ ViewQuitNext

FairSpec ==
  /\ Init /\ [][Next]_vars
  /\ WF_vars(GenStep) /\ WF_vars(FeedA) /\ WF_vars(FeedB)
  /\ WF_vars(WmStep) /\ WF_vars(MainStep) /\ WF_vars(ViewStep)

\* ------------------------------------- test_generate_rgb_images' harness
\* The test calls generate_rgb_images in its own process with a fresh queue
\* and an event nobody sets, then reads queue_a up to the sentinel.
GenInit ==
  /\ Blank /\ NoCalls
  /\ num_images \in 1..MaxImages
  /\ width \in Dims /\ height \in Dims
  /\ event_next_img = FALSE
  /\ bufA = <<>> /\ bufB = <<>> /\ putsA = <<>> /\ putsB = <<>>
  /\ pc_gen = "loop" /\ i = num_images
  /\ pc_wm = "idle" /\ pc_main = "idle" /\ process_list = {}
  /\ pc_view = "idle"

\* img = queue_a.get(timeout=1), until img is None
TestGetA ==
  /\ pc_gen = "ended" /\ pipeA # <<>>
  /\ \A k \in 1..Len(test_seen) : ~IsNone(test_seen[k])
  /\ pipeA' = Tail(pipeA)
  /\ test_seen' = Append(test_seen, Head(pipeA))
  /\ UNCHANGED <<calls, inputs, flags, lock, array_a, bufA, bufB, pipeB, genv, wmv,
                 mainv, viewv, quit_by, next_by_viewer>>

GenNext == GenIterate(AllKeys) \/ GenSentinel \/ FeedA \/ TestGetA

GenSpec == GenInit /\ [][GenNext]_vars

\* ------------------------------------------------ test_cleanup's harness
\* n dummy items and the sentinel, as the test puts them on a queue.
RECURSIVE DummyItems(_)
DummyItems(n) == IF n = 0 THEN <<>> ELSE Append(DummyItems(n - 1), Dummy(n - 1))

\* The test has put num_a_items and num_b_items dummy items and a sentinel
\* on each queue and calls cleanup(queue_a, queue_b, []).
DrainInit ==
  /\ Blank /\ NoCalls
  /\ num_images = 1 /\ width = 1 /\ height = 1
  /\ event_next_img = FALSE
  /\ \E num_a_items \in 0..MaxItems, num_b_items \in 0..MaxItems :
       /\ bufA = QueuePut(DummyItems(num_a_items), None)
       /\ bufB = QueuePut(DummyItems(num_b_items), None)
  /\ putsA = bufA /\ putsB = bufB
  /\ pc_gen = "idle" /\ i = 0
  /\ pc_wm = "idle"
  /\ pc_main = "cl_get_b" /\ process_list = {}
  /\ pc_view = "idle"

DrainNext ==
  \/ FeedA \/ FeedB
  \/ ClGetB \/ ClGetA \/ ClExited \/ ClEmptyB \/ ClEmptyA

DrainSpec == DrainInit /\ [][DrainNext]_vars

\* ------------------------------------------- functions called on their own
\* No process is started, the queues are empty.
Idle ==
  /\ Blank
  /\ num_images = 1 /\ width = 1 /\ height = 1
  /\ event_next_img = FALSE
  /\ bufA = <<>> /\ bufB = <<>> /\ putsA = <<>> /\ putsB = <<>>
  /\ pc_gen = "idle" /\ i = 0
  /\ pc_wm = "idle" /\ pc_main = "idle" /\ process_list = {}
  /\ pc_view = "idle"

\* Keys and values stored in a TwoWayDict: names and tuples of RGB_COLORS,
\* and a name and a tuple it does not have.
InsertKeys ==
  {Name("black"), Rgb(<<0, 0, 0>>), Name("red"), Rgb(<<255, 0, 0>>),
   Name("grey"), Rgb(<<128, 128, 128>>)}

\* The keys paired with k in d, k itself left out.
Partners(d, k) == IF k \in DOMAIN d THEN {d[k]} \ {k} ELSE {}

CatInit ==
  /\ Idle
  /\ catalog = RGB_COLORS /\ last_insert = NoInsert
  /\ rgb_arr = <<0, 0, 0>> /\ complements = <<>>

\* catalog[key] = value; last_insert records the keys that were paired with
\* key or with value before.
Insert ==
  \E key \in InsertKeys, value \in InsertKeys :
    /\ catalog' = SetItem(catalog, key, value)
    /\ last_insert' =
         [key |-> key, value |-> value,
          stale |-> (Partners(catalog, key) \cup Partners(catalog, value))
                      \ {key, value}]
    /\ UNCHANGED <<rgb_arr, complements, inputs, flags, lock, array_a, queues,
                   genv, wmv, mainv, viewv, quit_by, next_by_viewer,
                   test_seen>>

CatNext == Insert

CatSpec == CatInit /\ [][CatNext]_vars

\* Values a colour component takes: both ends of 0..255, their neighbours
\* and the two middle values.
Levels == {0, 1, 127, 128, 254, 255}

\* test_get_complement_color hands get_complement_color an array of three
\* components.
CompInit ==
  /\ Idle
  /\ catalog = RGB_COLORS /\ last_insert = NoInsert
  /\ rgb_arr \in [1..3 -> Levels] /\ complements = <<>>

\* output = colors.get_complement_color(np.array(input))
CallComplement ==
  /\ complements = <<>>
  /\ complements' = <<get_complement_color(rgb_arr)>>
  /\ UNCHANGED <<catalog, last_insert, rgb_arr, inputs, flags, lock, array_a,
                 queues, genv, wmv, mainv, viewv, quit_by, next_by_viewer,
                 test_seen>>

\* The complement of the answer.
CallComplementAgain ==
  /\ Len(complements) = 1
  /\ complements' = Append(complements, get_complement_color(complements[1]))
  /\ UNCHANGED <<catalog, last_insert, rgb_arr, inputs, flags, lock, array_a,
                 queues, genv, wmv, mainv, viewv, quit_by, next_by_viewer,
                 test_seen>>

CompNext == CallComplement \/ CallComplementAgain

CompSpec == CompInit /\ [][CompNext]_vars

\* ============================================================ properties
Last(h) == h[Len(h)]
Nones(h) == {k \in 1..Len(h) : IsNone(h[k])}
Frames(h) == {k \in 1..Len(h) : ~IsNone(h[k])}

\* At most one sentinel in a history of puts, and nothing after it.
SentinelLast(h) ==
  /\ Cardinality(Nones(h)) <= 1
  /\ \A k \in Nones(h) : k = Len(h)

\* The function has returned by the end of its loop (count exhausted, None
\* received or event_quit seen), not by an exception.
GenReturned == pc_gen = "ended"
WmReturned == pc_wm = "ended" /\ wm_error = "none"

\* C1: the generator on queue_a and the watermarker on queue_b each put at
\* most one sentinel and no frame after it, and a stage that has ended by
\* exhausting its count or input or by seeing event_quit has put exactly
\* one sentinel, as its last put.
C1_SentinelProtocol ==
  /\ SentinelLast(putsA) /\ SentinelLast(putsB)
  /\ GenReturned => (putsA # <<>> /\ IsNone(Last(putsA)))
  /\ WmReturned => (putsB # <<>> /\ IsNone(Last(putsB)))

\* Both stages have ended, the watermarker with every frame forwarded.
C1_Witness ==
  /\ Exited("gen") /\ Exited("wm") /\ wm_error = "none"
  /\ num_images = MaxImages
  /\ Len(putsA) = num_images + 1 /\ Len(putsB) = num_images + 1

\* The frame last written to array_a has been shown by the viewer, whole.
LastWrittenShown ==
  written # <<>> => <<Last(written).id, Last(written).id>> \in shown

\* C2: as long as 'q' is not pressed, the main loop starts to overwrite
\* array_a only when the frame it holds has been shown, and takes the
\* sentinel from queue_b only when the last frame has been shown.
C2_NoFrameSkipping ==
  [][ ( /\ ~quit_key
        /\ \/ (pc_main = "write1" /\ pc_main' = "write2")
           \/ (pc_main = "get" /\ pc_main' = "set_quit") )
      => LastWrittenShown ]_vars

\* C3: the main loop writes a frame into array_a only while event_next_img
\* is set, and from the second write on the viewer has set the event since
\* the previous write's clear().
C3_ReadyForNextGate ==
  pc_main \in {"write1", "write2"} =>
    /\ event_next_img
    /\ written # <<>> => next_by_viewer

\* The second write is under way.
C3_Witness == pc_main = "write1" /\ Len(written) = 1 /\ next_by_viewer

InViewRead == pc_view = "read"
InMainWrite ==
  pc_main \in {"write1", "write2", "set_start", "clear_next", "release"}

\* C4: the viewer is never reading array_a while the main loop is writing
\* it, and every image the viewer has shown is one whole frame the main
\* loop wrote.
C4_MutualExclusion ==
  /\ ~(InViewRead /\ InMainWrite)
  /\ \A s \in shown :
       /\ s[1] = s[2]
       /\ \E k \in 1..Len(written) : written[k].id = s[1]

\* The viewer waits for the lock while the main loop is writing the
\* second frame, the first one shown.
C4_Witness ==
  pc_view = "acquire" /\ pc_main = "write2" /\ lock = "main" /\ shown # {}

\* C5: the k-th frame written to array_a is the watermarked k-th frame the
\* generator put, and the k-th frame the watermarker puts on queue_b is
\* the watermarked k-th item it got from queue_a.
C5_Fifo ==
  /\ Len(written) <= Cardinality(Frames(putsA))
  /\ \A k \in 1..Len(written) :
       written[k].id = k /\ written[k] = Watermark(putsA[k])
  /\ \A k \in Frames(putsB) :
       k <= Len(wm_gets) /\ putsB[k] = Watermark(wm_gets[k])

\* Two frames of different colours have been written.
C5_Witness ==
  Len(written) = 2 /\ written[1].fill # written[2].fill

\* C6: once the main loop has taken the sentinel and set event_quit, no
\* 'q' pressed, the viewer is not waiting for a key: it needs no further
\* key to leave its loop.
C6_AutoClose ==
  (event_quit /\ ~quit_key) => pc_view # "waitkey"

\* C7: every queue_b.get() of the main loop returns.
C7_PopReturns == (pc_main = "get") ~> (pc_main # "get")

\* C8: a timeout of the watermarker's queue_a.get(timeout=1) is no error:
\* the loop goes back to its test of event_quit.
C8_TimeoutRetried ==
  [][ (pc_wm = "get" /\ pipeA = <<>> /\ pc_wm' # "get")
      => (pc_wm' = "check" /\ wm_error' = "none") ]_vars

\* C9: with event_quit never set, the generator puts num_images frames and
\* then the sentinel, each frame of shape (height, width, 3) and filled
\* with one colour of the catalog; the reader sees them in that order.
C9_GeneratorCorrect ==
  /\ Len(putsA) <= num_images + 1
  /\ \A k \in 1..Len(putsA) :
       IF k <= num_images
         THEN /\ putsA[k].kind = "frame"
              /\ putsA[k].shape = <<height, width, 3>>
              /\ putsA[k].px00 = putsA[k].fill
              /\ Rgb(putsA[k].fill) \in DOMAIN RGB_COLORS
         ELSE IsNone(putsA[k])
  /\ GenReturned => Len(putsA) = num_images + 1
  /\ Len(test_seen) <= Len(putsA)
  /\ \A k \in 1..Len(test_seen) : test_seen[k] = putsA[k]

\* The test has read the frames of a run of MaxImages images, wider than
\* high, and the sentinel.
C9_Witness ==
  /\ GenReturned /\ num_images = MaxImages /\ width > height
  /\ test_seen = putsA /\ Len(test_seen) = num_images + 1

\* C10: cleanup over a items and a sentinel on queue_a, b items and a
\* sentinel on queue_b, and no process, returns a count of a + b + 2 and
\* leaves both queues empty.
C10_DrainComplete ==
  pc_main = "returned" =>
    /\ count = Len(putsA) + Len(putsB)
    /\ bufA = <<>> /\ pipeA = <<>> /\ bufB = <<>> /\ pipeB = <<>>


\* Number of places of a sequence that hold frame n.
Occurs(h, n) ==
  Cardinality({k \in 1..Len(h) : h[k].kind = "frame" /\ h[k].id = n})

\* The main loop holds frame n: popped from queue_b, not yet in array_a
\* (written records the frame when the copy is complete).
MainHolds(n) ==
  IF pc_main \in {"acquire", "write1", "write2"} /\ image.kind = "frame"
       /\ image.id = n
    THEN 1 ELSE 0

\* Number of places frame n is in: queue_a, queue_b, the main loop's hands,
\* array_a's history, cleanup's takings.
Places(n) ==
  Occurs(bufA, n) + Occurs(pipeA, n) + Occurs(bufB, n) + Occurs(pipeB, n)
    + MainHolds(n) + Occurs(written, n)
    + Occurs(drained.a, n) + Occurs(drained.b, n)

\* C11: every frame the generator has put is in exactly one place: on
\* queue_a, on queue_b, held by the main loop, written to array_a, or taken
\* by cleanup; and when cleanup has returned it is written or taken, once.
C11_NoLostOrDuplicatedWork ==
  /\ \A k \in Frames(putsA) : Places(putsA[k].id) = 1
  /\ pc_main \in {"returned", "done"} =>
       \A k \in Frames(putsA) :
         Occurs(written, putsA[k].id) + Occurs(drained.a, putsA[k].id)
           + Occurs(drained.b, putsA[k].id) = 1

\* Cleanup has returned after 'q'; one frame was written, and cleanup took
\* one from queue_a or queue_b.
C11_Witness ==
  /\ pc_main = "returned" /\ quit_key /\ num_images = MaxImages
  /\ Len(written) = 1
  /\ Frames(drained.a) \cup Frames(drained.b) # {}


\* d maps each of its keys to a key that maps back to it.
TwoWay(d) == \A k \in DOMAIN d : d[k] \in DOMAIN d /\ d[d[k]] = k

\* C12: after construction and after any stores, the dictionary maps every
\* key k to a key that maps back to k (so a name or a tuple is in one pair
\* only); the pair just stored is there in both directions and the keys that
\* were paired with its key or its value before are gone.
C12_CatalogBijection ==
  /\ TwoWay(catalog)
  /\ \A n \in 1..Len(ColorTable) :
       last_insert = NoInsert =>
         catalog[Name(ColorTable[n][1])] = Rgb(ColorTable[n][2])
  /\ last_insert # NoInsert =>
       /\ catalog[last_insert.key] = last_insert.value
       /\ catalog[last_insert.value] = last_insert.key
       /\ last_insert.stale \cap DOMAIN catalog = {}

\* A pair was stored whose key and whose value were each in another pair.
C12_Witness ==
  /\ last_insert # NoInsert
  /\ Cardinality(last_insert.stale) = 2

\* A triple with every component in 0..255.
IsRgb(t) == \A c \in 1..3 : t[c] \in 0..255

\* C13: the complement of a triple of 0..255 is a triple of 0..255, the
\* complement of the complement is the triple, black gives white and red
\* gives aqua.
C13_ComplementLaw ==
  /\ Len(complements) >= 1 =>
       /\ IsRgb(complements[1])
       /\ rgb_arr = <<0, 0, 0>> => complements[1] = <<255, 255, 255>>
       /\ rgb_arr = <<255, 0, 0>> => complements[1] = <<0, 255, 255>>
  /\ Len(complements) = 2 => complements[2] = rgb_arr

\* Red was complemented twice.
C13_Witness ==
  /\ rgb_arr = <<255, 0, 0>> /\ Len(complements) = 2


\* C14: a step never clears event_quit or event_start; the step that sets
\* event_start is the main loop's event_start.set(); a step that sets
\* event_quit is a step of the main loop or of the viewer.
C14_MonotonicFlags ==
  [][/\ event_quit => event_quit'
     /\ event_start => event_start'
     /\ (~event_start /\ event_start') =>
          /\ pc_main = "set_start" /\ pc_main' # pc_main
          /\ UNCHANGED <<genv, wmv, viewv>>
     /\ (~event_quit /\ event_quit') =>
          /\ UNCHANGED <<genv, wmv>>
          /\ \/ pc_main = "set_quit" /\ pc_main' # pc_main /\ UNCHANGED viewv
             \/ pc_view = "key_q" /\ pc_view' # pc_view /\ UNCHANGED mainv
    ]_vars

\* Both flags are set, and both the viewer and the main loop have set
\* event_quit; the main loop has gone round once more since event_start.
C14_Witness ==
  /\ event_quit /\ event_start
  /\ quit_by = {"main", "view"}
  /\ pc_main = "cl_get_b"


\* The main loop of __main__ has not been left.
MainInLoop ==
  pc_main \in {"check", "wait", "get", "acquire", "write1", "write2",
               "set_start", "clear_next", "release"}

\* C15: once the viewer has taken 'q', the main loop leaves its loop,
\* wherever it was when the key came.
C15_QuitUnblocksMain == quit_key ~> ~MainInLoop


\* A half of array_a holds a frame the main loop copied there: the last one
\* written, or the one being copied.
HalfWritten(half) ==
  /\ half.kind = "frame"
  /\ \/ written # <<>> /\ half = Last(written)
     \/ pc_main = "write2" /\ half = image

\* C16: the main loop copies a frame, sets event_start and clears
\* event_next_img holding the lock; until event_start is set the viewer
\* waits and has shown nothing; once it is set each half of array_a holds a
\* frame the main loop wrote, the whole array holds the last frame written
\* whenever the main loop is not copying, and the viewer has only shown
\* frames.
C16_NoRenderBeforeFirstFrame ==
  /\ pc_main \in {"write1", "write2", "set_start", "clear_next", "release"}
       => lock = "main"
  /\ ~event_start => pc_view = "wait_start" /\ shown = {}
  /\ event_start =>
       /\ written # <<>>
       /\ HalfWritten(array_a[1]) /\ HalfWritten(array_a[2])
       /\ lock # "main" => array_a = <<Last(written), Last(written)>>
  /\ InViewRead => event_start /\ array_a[1].kind = "frame"
  /\ \A s \in shown : \E k \in 1..Len(written) : s[1] = written[k].id

\* The viewer has shown the first frame and the main loop is half way
\* through copying the second.
C16_Witness ==
  /\ event_start /\ shown # {}
  /\ pc_main = "write2" /\ Len(written) = 1 /\ image.id = 2


\* C17: when waitKey has returned a key that is neither 'q' nor <Enter>,
\* the viewer's next step leaves event_quit, event_start, event_next_img
\* and array_a as they are and takes it back to the head of its loop, from
\* where it shows the array and waits for a key again.
C17_OtherKeysIgnored ==
  [][(pc_view = "key_other" /\ pc_view' # pc_view) =>
       /\ UNCHANGED <<flags, array_a, lock, shown, quit_key>>
       /\ pc_view' = "check"]_vars

\* The viewer is back at the head of its loop after another key: it has
\* shown the last frame written and event_next_img is still clear (after
\* <Enter> the event stays set until the main loop has written a frame not
\* yet shown).
C17_Witness ==
  /\ pc_view = "check" /\ ~event_quit /\ ~event_next_img
  /\ written # <<>>
  /\ <<Last(written).id, Last(written).id>> \in shown


\* C18: every frame the watermarker has put on queue_b is labelled with the
\* name RGB_COLORS gives the colour the generator filled it with, and its
\* circle (and label) are drawn in the complement of that colour.
C18_LabelFidelity ==
  \A k \in Frames(putsB) :
    /\ putsB[k].text = RGB_COLORS[Rgb(putsB[k].fill)][2]
    /\ putsB[k].circle[3] = get_complement_color(putsB[k].fill)


\* C19: num_images being at least 1, event_quit is set only when the main
\* loop has written a frame and set event_start, whether or not a stage was
\* ended by an exception; so the viewer is not at event_start.wait() with
\* event_quit set and the wait unable to return.
C19_QuitImpliesStarted ==
  /\ num_images >= 1
  /\ event_quit =>
       /\ event_start /\ written # <<>>
       /\ pc_view # "wait_start"

\* The main loop has set event_quit on popping None, no stage having been
\* ended by an exception, after writing every frame.
C19_Witness ==
  /\ event_quit /\ quit_by = {"main"}
  /\ wm_error = "none" /\ ~view_error
  /\ num_images = MaxImages /\ Len(written) = num_images


\* t is a tuple RGB_COLORS has a name for.
InCatalog(t) == Rgb(t) \in DOMAIN RGB_COLORS

\* The complement of every tuple of RGB_COLORS is a tuple of RGB_COLORS.
ClosedUnderComplement ==
  \A n \in 1..Len(ColorTable) :
    /\ InCatalog(ColorTable[n][2])
    /\ InCatalog(get_complement_color(ColorTable[n][2]))

\* For a frame of any colour of the table and any size, the pixel the
\* watermarker looks up once the circle is drawn is a tuple of RGB_COLORS.
SampledPixelNamed ==
  \A n \in 1..Len(ColorTable), h \in Dims, w \in Dims :
    InCatalog(Px00AfterCircle(FullImage(1, h, w, ColorTable[n][2])))

\* C20: the complement of every tuple of RGB_COLORS is a tuple of
\* RGB_COLORS; for a frame of any colour of the table and any size, the
\* pixel the watermarker looks up once the circle is drawn is a tuple of
\* RGB_COLORS, and so is pixel (0,0) of every frame it has put on queue_b;
\* neither the watermarker nor the viewer is ended by a KeyError, and the
\* pixel the viewer is about to look up is a tuple of RGB_COLORS.
C20_LookupsNeverFail ==
  /\ ClosedUnderComplement
  /\ SampledPixelNamed
  /\ wm_error # "KeyError" /\ ~view_error
  /\ \A k \in Frames(putsB) : InCatalog(putsB[k].px00)
  /\ InViewRead => InCatalog(array_a[1].px00)

\* The viewer has looked up and shown a frame whose pixel (0,0) the circle
\* painted in the complement of the frame's colour.
C20_Witness ==
  /\ pc_view = "waitkey" /\ shown # {}
  /\ array_a[1].kind = "frame" /\ array_a[1].px00 # array_a[1].fill
  /\ array_a[1].text = RGB_COLORS[Rgb(array_a[1].px00)][2]

====
